---- MODULE Spec2Model ----
(***************************************************************************)
(* A model of the Trivia API backend (starter_code/backend/flaskr).        *)
(* The state is the question table of the relational store and the last    *)
(* HTTP response; every route handler is one action.  A second             *)
(* specification, SpecQuiz, follows a quiz session of a client that calls  *)
(* POST /quizzes repeatedly.                                               *)
(***************************************************************************)
EXTENDS Integers, Sequences, FiniteSets, TLC

VARIABLES questions, nextId, seeded, resp, session

vars == <<questions, nextId, seeded, resp, session>>

-----------------------------------------------------------------------------
(* Bounds of the model *)

\* questions loaded in the store before the first request (Spec)
MaxSeed == 10
\* POST /questions requests that are served
MaxCreate == 1
\* DELETE requests that remove a row
MaxDeletes == 1
\* page numbers requested: 0..MaxPage
MaxPage == 2
\* rows of the category table
NumCategories == 2
\* questions loaded in the store of a quiz session (SpecQuiz)
MaxQuizSeed == 3

\* flaskr/__init__.py line 9
QUESTIONS_PER_PAGE == 10

-----------------------------------------------------------------------------
(* JSON / Python values.  A string is a sequence of one-character strings. *)

None == [type |-> "none", int |-> 0, str |-> <<>>]
IntV(n) == [type |-> "int", int |-> n, str |-> <<>>]
StrV(s) == [type |-> "str", int |-> 0, str |-> s]

Min(a, b) == IF a < b THEN a ELSE b
Max(a, b) == IF a > b THEN a ELSE b

Digit(d) ==
    CASE d = 0 -> "0" [] d = 1 -> "1" [] d = 2 -> "2" [] d = 3 -> "3"
      [] d = 4 -> "4" [] d = 5 -> "5" [] d = 6 -> "6" [] d = 7 -> "7"
      [] d = 8 -> "8" [] d = 9 -> "9"

RECURSIVE Decimal(_)
Decimal(n) == IF n < 10 THEN <<Digit(n)>> ELSE Decimal(n \div 10) \o <<Digit(n % 10)>>

\* str(v) / f'{v}' of a Python value
PyStr(v) ==
    CASE v.type = "none" -> <<"N", "o", "n", "e">>
      [] v.type = "int" -> IF v.int < 0 THEN <<"-">> \o Decimal(-v.int) ELSE Decimal(v.int)
      [] v.type = "str" -> v.str

\* truth value of a Python value
Truthy(v) ==
    CASE v.type = "none" -> FALSE
      [] v.type = "int" -> v.int # 0
      [] v.type = "str" -> v.str # <<>>
      [] v.type = "tuple" -> v.items # <<>>

\* a or b
PyOr(a, b) == IF Truthy(a) THEN a ELSE b

\* a == b on None, ints and strings (values of different types are unequal)
PyEq(a, b) == a.type = b.type /\ a = b

\* a freshly built tuple
Tuple(items) == [type |-> "tuple", items |-> items]

\* a is b: a freshly built tuple is identical to no other object
PyIs(a, b) == IF a.type = "tuple" \/ b.type = "tuple" THEN FALSE ELSE a = b

\* dict.get(key): None when the key is missing
Get(body, key) == IF key \in DOMAIN body THEN body[key] ELSE None

-----------------------------------------------------------------------------
(* The store *)

\* the largest id the store's sequence hands out within the bounds
MaxId == MaxSeed + MaxCreate

\* sizes of the initial data load: an empty store and a store of MaxSeed rows
SeedSizes == {0, MaxSeed}

\* ids of the category table (read-only: no endpoint writes it)
Categories == 1..NumCategories

SeedTexts == << <<"A", "b">>, <<"b", "a">>, <<"a">> >>

\* the i-th question of the initial data load
SeedQuestion(i) ==
    [question |-> StrV(SeedTexts[(i % 3) + 1]),
     answer |-> StrV(<<"x">>),
     category |-> StrV(Decimal((i % NumCategories) + 1)),
     difficulty |-> IntV(1)]

\* the ids of a set in ascending order
RECURSIVE IdOrdered(_)
IdOrdered(S) ==
    IF S = {} THEN <<>>
    ELSE LET m == CHOOSE x \in S : \A y \in S : x <= y
         IN <<m>> \o IdOrdered(S \ {m})

\* a Question object of the store
Question(store, id) ==
    [id |-> id,
     question |-> store[id].question,
     answer |-> store[id].answer,
     category |-> store[id].category,
     difficulty |-> store[id].difficulty]

\* Question.query.order_by(Question.id).all()
AllQuestions(store) ==
    LET Stored(i) == i \in DOMAIN store
        ids == SelectSeq([i \in 1..MaxId |-> i], Stored)
    IN [i \in 1..Len(ids) |-> Question(store, ids[i])]

\* Question.format(): the dictionary of the object's columns
Format(q) ==
    [id |-> q.id,
     question |-> q.question,
     answer |-> q.answer,
     category |-> q.category,
     difficulty |-> q.difficulty]

\* [question.format() for question in selection]
FormatAll(selection) == [i \in 1..Len(selection) |-> Format(selection[i])]

-----------------------------------------------------------------------------
(* Pagination *)

\* Python's s[start:end]: negative indices count from the end, both are clamped
PySlice(s, start, end) ==
    LET n == Len(s)
        lo == IF start < 0 THEN Max(n + start, 0) ELSE Min(start, n)
        hi == IF end < 0 THEN Max(n + end, 0) ELSE Min(end, n)
    IN IF lo >= hi THEN <<>> ELSE SubSeq(s, lo + 1, hi)

\* a helper that takes the page number as an index from 0
paginate_questions_zero_based(page, selection) ==
    LET start == page * QUESTIONS_PER_PAGE
        end == start + QUESTIONS_PER_PAGE
    IN PySlice(FormatAll(selection), start, end)

paginate_questions(page, selection) ==
    LET start == (page - 1) * QUESTIONS_PER_PAGE
        end == start + QUESTIONS_PER_PAGE
    IN PySlice(FormatAll(selection), start, end)

-----------------------------------------------------------------------------
(* Substring search: Question.question.ilike(f'%{search_input}%') *)

Lower(c) ==
    CASE c = "A" -> "a" [] c = "B" -> "b" [] c = "N" -> "n" [] OTHER -> c

LowerAll(s) == [i \in 1..Len(s) |-> Lower(s[i])]

\* SQL LIKE on lower-cased operands: % matches any run of characters, _ any
\* one character, every other character itself
RECURSIVE LikeMatch(_, _)
LikeMatch(text, pattern) ==
    IF pattern = <<>> THEN text = <<>>
    ELSE IF Head(pattern) = "%"
         THEN \/ LikeMatch(text, Tail(pattern))
              \/ text # <<>> /\ LikeMatch(Tail(text), pattern)
    ELSE IF Head(pattern) = "_"
         THEN text # <<>> /\ LikeMatch(Tail(text), Tail(pattern))
    ELSE text # <<>> /\ Head(text) = Head(pattern)
         /\ LikeMatch(Tail(text), Tail(pattern))

\* column ILIKE pattern; a NULL column matches nothing
ILike(value, pattern) ==
    /\ value.type = "str"
    /\ LikeMatch(LowerAll(value.str), LowerAll(pattern))

\* term is a substring of text, letter case ignored
Contains(text, term) ==
    \E i \in 0..(Len(text) - Len(term)) :
        LowerAll(SubSeq(text, i + 1, i + Len(term))) = LowerAll(term)

\* Question.category compared with a text: the column holds the text form of
\* what was inserted, NULL for None
CategoryIs(value, text) == value.type # "none" /\ PyStr(value) = text

CategoryType(c) == CASE c = 1 -> "Science" [] c = 2 -> "Art" [] OTHER -> "Other"

-----------------------------------------------------------------------------
(* Responses *)

NoRequest == [page |-> 0, id |-> 0, body |-> <<>>]

Request(page, id, body) == [page |-> page, id |-> id, body |-> body]

Response(op, req, status, message, qs, total, id, cat) ==
    [op |-> op, req |-> req, status |-> status, success |-> status \in {200, 201},
     message |-> message, questions |-> qs, total_questions |-> total, id |-> id,
     current_category |-> cat, question |-> <<>>]

\* abort(404), caught and raised again, answered by the 404 handler
not_found(op, req) ==
    Response(op, req, 404, "resource not found", <<>>, 0, 0, "")

\* abort(422)
unprocessed(op, req) ==
    Response(op, req, 422, "request cannot be processed", <<>>, 0, 0, "")

\* any other exception, raised again, answered by the 500 handler
internal_server_error(op, req) ==
    Response(op, req, 500, "internal server error", <<>>, 0, 0, "")

-----------------------------------------------------------------------------
(* The store's writes *)

\* question.insert(): the store assigns the next id of its sequence
insert(q) == (nextId :> q) @@ questions

\* question.delete()
delete(id) == [i \in DOMAIN questions \ {id} |-> questions[i]]

Deleted == (1..(nextId - 1)) \ DOMAIN questions

-----------------------------------------------------------------------------
(* Handlers *)

\* request.args.get('page', 1, type=int)
Pages == 0..MaxPage
DefaultPage == {1}
SearchPages == {1, 2}

\* GET /questions?page=N
get_questions(page) ==
    LET selection == AllQuestions(questions)
        current_questions == paginate_questions(page, selection)
        req == Request(page, 0, <<>>)
    IN /\ resp' = IF current_questions = <<>>
                  THEN not_found("get_questions", req)
                  ELSE Response("get_questions", req, 200, "", current_questions,
                                Len(selection), 0, "")
       /\ UNCHANGED <<questions, nextId, seeded, session>>

\* a handler that counts the questions before it deletes
delete_question_stale_count(id) ==
    LET req == Request(0, id, <<>>)
    IN IF id \notin DOMAIN questions
       THEN /\ resp' = not_found("delete_question", req)
            /\ UNCHANGED <<questions, nextId, seeded, session>>
       ELSE /\ Cardinality(Deleted) < MaxDeletes
            /\ questions' = delete(id)
            /\ resp' = Response("delete_question", req, 200, "", <<>>,
                                Cardinality(DOMAIN questions), id, "")
            /\ UNCHANGED <<nextId, seeded, session>>

\* DELETE /questions/<id>
delete_question(id) ==
    LET req == Request(0, id, <<>>)
    IN IF id \notin DOMAIN questions
       THEN /\ resp' = not_found("delete_question", req)
            /\ UNCHANGED <<questions, nextId, seeded, session>>
       ELSE /\ Cardinality(Deleted) < MaxDeletes
            /\ questions' = delete(id)
            /\ resp' = Response("delete_question", req, 200, "", <<>>,
                                Cardinality(DOMAIN questions'), id, "")
            /\ UNCHANGED <<nextId, seeded, session>>

\* the validation as its comment intends it: any of the five None or empty
InvalidInput_any_empty(input, new_question, new_answer, new_category, new_difficulty) ==
    \E v \in {new_question, new_answer, new_category, new_difficulty} :
        v = None \/ v = StrV(<<>>)

\* the validation of POST /questions:
\*   (input, new_question, ...) is (None or "")
InvalidInput(input, new_question, new_answer, new_category, new_difficulty) ==
    PyIs(Tuple(<<input, new_question, new_answer, new_category, new_difficulty>>),
         PyOr(None, StrV(<<>>)))

\* a handler that queries the listing before it inserts
create_new_question_stale_selection(input, page) ==
    LET new_question == Get(input, "question")
        new_answer == Get(input, "answer")
        new_category == Get(input, "category")
        new_difficulty == Get(input, "difficulty")
        req == Request(page, 0, input)
        selection == AllQuestions(questions)
    IN /\ nextId - 1 - seeded < MaxCreate
       /\ questions' = insert([question |-> new_question,
                               answer |-> new_answer,
                               category |-> new_category,
                               difficulty |-> new_difficulty])
       /\ nextId' = nextId + 1
       /\ resp' = Response("create_new_question", req, 201, "",
                           paginate_questions(page, selection),
                           Len(selection), nextId, "")
       /\ UNCHANGED <<seeded, session>>

\* POST /questions
create_new_question(input, page) ==
    LET new_question == Get(input, "question")
        new_answer == Get(input, "answer")
        new_category == Get(input, "category")
        new_difficulty == Get(input, "difficulty")
        req == Request(page, 0, input)
    IN /\ nextId - 1 - seeded < MaxCreate
       /\ IF InvalidInput(input, new_question, new_answer, new_category, new_difficulty)
          THEN /\ resp' = unprocessed("create_new_question", req)
               /\ UNCHANGED <<questions, nextId, seeded, session>>
          ELSE /\ questions' = insert([question |-> new_question,
                                       answer |-> new_answer,
                                       category |-> new_category,
                                       difficulty |-> new_difficulty])
               /\ nextId' = nextId + 1
               /\ LET selection == AllQuestions(questions')
                  IN resp' = Response("create_new_question", req, 201, "",
                                      paginate_questions(page, selection),
                                      Len(selection), nextId, "")
               /\ UNCHANGED <<seeded, session>>

\* POST /questions/search
search_questions(body, page) ==
    LET search_input == Get(body, "searchTerm")
        pattern == <<"%">> \o PyStr(search_input) \o <<"%">>
        Keep(q) == ILike(q.question, pattern)
        selection == SelectSeq(AllQuestions(questions), Keep)
        found == paginate_questions(page, selection)
        req == Request(page, 0, body)
    IN /\ resp' = IF Len(selection) # 0
                  THEN Response("search_questions", req, 200, "", found, Len(found), 0, "")
                  ELSE not_found("search_questions", req)
       /\ UNCHANGED <<questions, nextId, seeded, session>>

\* GET /categories/<id>/questions
get_questions_by_category(id, page) ==
    LET Keep(q) == CategoryIs(q.category, PyStr(IntV(id)))
        selection == SelectSeq(AllQuestions(questions), Keep)
        req == Request(page, id, <<>>)
    IN /\ resp' = IF id \in Categories
                  THEN Response("get_questions_by_category", req, 200, "",
                                paginate_questions(page, selection), Len(selection), 0,
                                CategoryType(id))
                  \* category is None: current_questions was never bound
                  ELSE internal_server_error("get_questions_by_category", req)
       /\ UNCHANGED <<questions, nextId, seeded, session>>

\* a query that forgets the category filter
QuizCandidates_any_category(category_id, previous_questions) ==
    LET Seen(id) == \E i \in 1..Len(previous_questions) : previous_questions[i] = id
        Unseen(q) == ~Seen(q.id)
    IN SelectSeq(AllQuestions(questions), Unseen)

\* a query that forgets the notin_ filter
QuizCandidates_no_exclusion(category_id, previous_questions) ==
    LET OfCategory(q) == CategoryIs(q.category, PyStr(category_id))
    IN IF PyEq(category_id, IntV(0))
       THEN AllQuestions(questions)
       ELSE SelectSeq(AllQuestions(questions), OfCategory)

\* the query of POST /quizzes: the questions not yet shown, of every category
\* when category_id == 0, of the requested category otherwise
QuizCandidates(category_id, previous_questions) ==
    LET Seen(id) == \E i \in 1..Len(previous_questions) : previous_questions[i] = id
        Unseen(q) == ~Seen(q.id)
        OfCategory(q) == ~Seen(q.id) /\ CategoryIs(q.category, PyStr(category_id))
    IN IF PyEq(category_id, IntV(0))
       THEN SelectSeq(AllQuestions(questions), Unseen)
       ELSE SelectSeq(AllQuestions(questions), OfCategory)

\* the response of POST /quizzes with the question field present or absent
QuizResponse(req, question) ==
    [Response("play_quizzes_game", req, 200, "", <<>>, 0, 0, "") EXCEPT !.question = question]

\* POST /quizzes; the caller says what becomes of the session
play_quizzes_game(body) ==
    LET req == Request(0, 0, body)
        current_category == Get(body, "quiz_category")
        previous_questions == Get(body, "previous_questions")
    IN /\ IF current_category = None
          \* None['id'] raises, the 500 handler answers
          THEN resp' = internal_server_error("play_quizzes_game", req)
          ELSE LET category_id == current_category.id
                   all_questions == QuizCandidates(category_id, previous_questions)
               IN \/ /\ all_questions # <<>>
                     \* random.choice(all_questions)
                     /\ \E i \in 1..Len(all_questions) :
                           resp' = QuizResponse(req, <<Format(all_questions[i])>>)
                  \/ /\ all_questions = <<>>
                     /\ resp' = QuizResponse(req, <<>>)
                  \* Question.category == category_id with an integer operand: a
                  \* store that does not compare its text column with an integer
                  \* raises, and the 500 handler answers
                  \/ /\ category_id.type = "int" /\ ~PyEq(category_id, IntV(0))
                     /\ resp' = internal_server_error("play_quizzes_game", req)
       /\ UNCHANGED <<questions, nextId, seeded>>

\* a single POST /quizzes request
quiz_request(body) ==
    /\ ~session.active
    /\ play_quizzes_game(body)
    /\ UNCHANGED session

\* the client opens a quiz of one category with nothing shown yet
start_quiz(category_id) ==
    /\ ~session.active
    /\ session' = [active |-> TRUE, category |-> category_id, previous |-> <<>>,
                   finished |-> FALSE]
    /\ UNCHANGED <<questions, nextId, seeded, resp>>

\* the client asks for the next question of its quiz and appends the id of
\* the question it is given to previous_questions
next_question ==
    /\ session.active /\ ~session.finished
    /\ play_quizzes_game([quiz_category |-> [id |-> session.category],
                          previous_questions |-> session.previous])
    /\ session' = IF resp'.status # 200 THEN session
                  ELSE IF resp'.question = <<>>
                       THEN [session EXCEPT !.finished = TRUE]
                       ELSE [session EXCEPT
                               !.previous = Append(@, resp'.question[1].id)]

-----------------------------------------------------------------------------
(* Requests of the model *)

\* bodies of POST /questions: complete, with empty strings, with missing keys
Bodies ==
    { [question |-> StrV(<<"B", "a">>), answer |-> StrV(<<"x">>),
       category |-> IntV(1), difficulty |-> IntV(1)],
      [question |-> StrV(<<>>), answer |-> StrV(<<>>),
       category |-> StrV(<<>>), difficulty |-> StrV(<<>>)],
      [answer |-> StrV(<<"x">>)] }

\* bodies of POST /questions/search
SearchBodies ==
    { [searchTerm |-> StrV(<<"a", "B">>)],
      [searchTerm |-> StrV(<<"x">>)],
      [searchTerm |-> StrV(<<"_">>)],
      [searchTerm |-> StrV(<<>>)] }

\* the subsets of a set of ids, each as a list in ascending order
IdLists(S) == {IdOrdered(T) : T \in SUBSET S}

\* quiz_category ids: 0 for every category, an integer, the text of a category
\* id (one of them of no category), a text that is no number
QuizCategoryIds ==
    {IntV(0), IntV(1)}
        \cup {StrV(Decimal(c)) : c \in 1..(NumCategories + 1)}
        \cup {StrV(<<"N", "o", "n", "e">>)}

\* bodies of POST /quizzes
QuizBodies ==
    {[quiz_category |-> [id |-> c], previous_questions |-> p] :
        c \in QuizCategoryIds, p \in IdLists(1..MaxQuizSeed)}
        \cup {[previous_questions |-> <<>>]}

\* the categories a quiz session is played in: all, or one category
SessionCategories == {IntV(0)} \cup {StrV(Decimal(c)) : c \in Categories}

-----------------------------------------------------------------------------

NoSession == [active |-> FALSE, category |-> None, previous |-> <<>>, finished |-> FALSE]

Init ==
    /\ seeded \in SeedSizes
    /\ questions = [i \in 1..seeded |-> SeedQuestion(i)]
    /\ nextId = seeded + 1
    /\ resp = Response("none", NoRequest, 0, "", <<>>, 0, 0, "")
    /\ session = NoSession

Next ==
    \/ \E page \in Pages : get_questions(page)
    \/ \E id \in 1..nextId : delete_question(id)
    \/ \E input \in Bodies, page \in DefaultPage : create_new_question(input, page)
    \/ \E body \in SearchBodies, page \in SearchPages : search_questions(body, page)
    \/ \E id \in 1..(NumCategories + 1), page \in DefaultPage :
          get_questions_by_category(id, page)

Spec == Init /\ [][Next]_vars

\* a store small enough to play every quiz to its end
InitQuiz ==
    /\ seeded \in 0..MaxQuizSeed
    /\ questions = [i \in 1..seeded |-> SeedQuestion(i)]
    /\ nextId = seeded + 1
    /\ resp = Response("none", NoRequest, 0, "", <<>>, 0, 0, "")
    /\ session = NoSession

NextQuiz ==
    \/ \E body \in QuizBodies : quiz_request(body)
    \/ \E category_id \in SessionCategories : start_quiz(category_id)
    \/ next_question

\* the client of a quiz keeps asking until it is told the quiz is over
SpecQuiz == InitQuiz /\ [][NextQuiz]_vars /\ WF_vars(next_question)

-----------------------------------------------------------------------------
(* Properties of the handlers, checked under Spec *)

\* the listing entry of a stored question
Listed(id) ==
    [id |-> id,
     question |-> questions[id].question,
     answer |-> questions[id].answer,
     category |-> questions[id].category,
     difficulty |-> questions[id].difficulty]

\* C3: GET /questions?page=P with P >= 1 answers 404 'resource not found'
\* exactly when positions (P-1)*10 .. P*10 (exclusive) of the id-ordered list
\* of all questions hold nothing, and otherwise succeeds with exactly those
\* elements and total_questions equal to the number of stored questions.
C3_Pagination ==
    (resp.op = "get_questions" /\ resp.req.page >= 1) =>
        LET ids == IdOrdered(DOMAIN questions)
            first == (resp.req.page - 1) * 10
            n == Max(0, Min(10, Len(ids) - first))
            slice == [k \in 1..n |-> Listed(ids[first + k])]
        IN IF n = 0
           THEN resp.status = 404 /\ ~resp.success
                /\ resp.message = "resource not found"
           ELSE /\ resp.status = 200 /\ resp.success
                /\ resp.questions = slice
                /\ Len(resp.questions) <= 10
                /\ resp.total_questions = Cardinality(DOMAIN questions)

\* a second page that holds a question was served
C3_Witness ==
    /\ resp.op = "get_questions" /\ resp.req.page = 2
    /\ resp.status = 200 /\ Len(resp.questions) >= 1

\* C4: DELETE /questions/{id} of a stored id succeeds with deleted = id and
\* total_questions one less than before, removes exactly that question and
\* leaves every other question as it was; an id that is gone comes back only
\* by a create.
C4_Delete ==
    [][ /\ \A id \in DOMAIN questions :
             (resp'.op = "delete_question" /\ resp'.req.id = id) =>
                 /\ resp'.status = 200 /\ resp'.success
                 /\ resp'.id = id
                 /\ resp'.total_questions = Cardinality(DOMAIN questions) - 1
                 /\ id \notin DOMAIN questions'
                 /\ \A other \in DOMAIN questions \ {id} :
                        other \in DOMAIN questions' /\ questions'[other] = questions[other]
        /\ \A id \in DOMAIN questions' \ DOMAIN questions :
             resp'.op = "create_new_question" ]_vars

\* a question was deleted and others are still stored
C4_Witness ==
    /\ resp.op = "delete_question" /\ resp.status = 200
    /\ resp.id \notin DOMAIN questions
    /\ resp.total_questions >= 1

\* C5 as claimed: DELETE /questions/{id} of an id that is not stored answers
\* 422 'request cannot be processed'.
C5_DeleteMissingIs422 ==
    [][ (resp'.op = "delete_question" /\ resp'.req.id \notin DOMAIN questions) =>
            /\ resp'.status = 422 /\ ~resp'.success
            /\ resp'.message = "request cannot be processed" ]_vars

HasAllFields(body) == {"question", "answer", "category", "difficulty"} \subseteq DOMAIN body

\* every stored question is on one of the pages GET /questions serves
EveryQuestionListed ==
    LET all == AllQuestions(questions)
        served == [page \in 1..(Len(all) + 1) |-> paginate_questions(page, all)]
    IN \A id \in DOMAIN questions :
          \E page \in DOMAIN served :
             \E k \in 1..Len(served[page]) : served[page][k] = Listed(id)

C8_SearchIsSubstring ==
    (resp.op = "search_questions" /\ "searchTerm" \in DOMAIN resp.req.body) =>
        LET term == resp.req.body.searchTerm.str
            matching == {id \in DOMAIN questions :
                            /\ questions[id].question.type = "str"
                            /\ Contains(questions[id].question.str, term)}
        IN /\ resp.status = 404 <=> matching = {}
           /\ resp.status # 404 =>
                /\ resp.success
                /\ \A k \in 1..Len(resp.questions) : resp.questions[k].id \in matching

\* C9 as claimed: GET /categories/{id}/questions of a category that does not
\* exist answers 404.
C9_MissingCategoryIs404 ==
    (resp.op = "get_questions_by_category" /\ resp.req.id \notin Categories) =>
        resp.status = 404 /\ ~resp.success

-----------------------------------------------------------------------------
(* Properties of the quiz, checked under SpecQuiz *)

\* C1: a question returned by POST /quizzes is a stored question whose id is
\* not in previous_questions and, unless the category id is 0, whose category
\* is the requested category id.
C1_QuizQuestion ==
    (resp.op = "play_quizzes_game" /\ resp.question # <<>>) =>
        LET q == resp.question[1]
            previous == resp.req.body.previous_questions
            category_id == resp.req.body.quiz_category.id
        IN /\ resp.status = 200 /\ resp.success
           /\ q.id \in DOMAIN questions /\ q = Listed(q.id)
           /\ \A i \in 1..Len(previous) : previous[i] # q.id
           /\ category_id # IntV(0) =>
                 /\ q.category.type # "none"
                 /\ PyStr(q.category) = PyStr(category_id)

\* with previous_questions = [1] and category '1' a question was returned
C1_Witness ==
    /\ resp.op = "play_quizzes_game" /\ resp.question # <<>>
    /\ resp.req.body.previous_questions = <<1>>
    /\ resp.req.body.quiz_category.id = StrV(<<"1">>)

\* the questions a quiz of the session's category can show
SessionCandidates ==
    IF session.category = IntV(0) THEN DOMAIN questions
    ELSE {id \in DOMAIN questions :
             /\ questions[id].category.type # "none"
             /\ PyStr(questions[id].category) = PyStr(session.category)}

Shown == {session.previous[i] : i \in 1..Len(session.previous)}

IsNumber(text) ==
    /\ text # <<>>
    /\ \A i \in 1..Len(text) : \E d \in 0..9 : text[i] = Digit(d)

\* C10 as claimed: POST /quizzes with a quiz_category id that is no category
\* id at all, such as the string 'None', answers 422.
C10_MalformedCategoryIs422 ==
    (/\ resp.op = "play_quizzes_game"
     /\ "quiz_category" \in DOMAIN resp.req.body
     /\ ~IsNumber(PyStr(resp.req.body.quiz_category.id))) =>
        resp.status = 422 /\ ~resp.success

====
